---- MODULE Spec2Model ----
(***************************************************************************)
(* Ring buffer of src/ring_buffer.c (netube_99 RingBuffer v1.3.1): a       *)
(* fixed-capacity circular byte buffer over a caller-supplied array, with  *)
(* byte and block writes/reads, deletion of leading bytes, and insertion   *)
(* and search of 1..4-byte keywords.                                       *)
(*                                                                         *)
(* Representation of the C values                                          *)
(*  - uint32_t fields and locals are held as the signed residue of the     *)
(*    32-bit value: v < 2^31 is v itself, v >= 2^31 is v - 2^32.  With the *)
(*    magnitudes below 2^31 (all bounds here are tiny) + and - on residues *)
(*    are the C operations modulo 2^32, and the unsigned comparisons are   *)
(*    ULt/ULe below.  An underflow such as max_length - head with          *)
(*    head > max_length is therefore a negative residue, i.e. a huge       *)
(*    unsigned value, exactly as in the C code.                            *)
(*  - a 32-bit keyword is the sequence of its four base-256 digits,        *)
(*    k[i+1] = (keyword >> 8*i) & 0xFF, so shifts by multiples of 8 and    *)
(*    equality of words are exact for every 32-bit value.                  *)
(*  - a read outside the storage array (or outside keyword_byte[4], or of  *)
(*    the uninitialised rb_data) is undefined behaviour: every byte value  *)
(*    of the modelled alphabet is a possible outcome, so the operations    *)
(*    that can read return the SET of their possible outcomes.             *)
(***************************************************************************)
EXTENDS Integers, Sequences, FiniteSets, TLC

\* ---------------------------------------------------------------- bounds
\* largest buffer_size passed to Ring_Buffer_Init in the free-running model
MaxCap == 2
\* data bytes are drawn from 0..MaxByte
MaxByte == 1
\* lenght and head are not allowed to grow past LenBound (guards of the calls)
LenBound == 5
\* longest block handed to Ring_Buffer_Write_String in the free-running model
MaxBlock == 3
\* keywords of the free-running model vary in their KeywordDigits low bytes only
KeywordDigits == 2
\* largest buffer_size of the round-trip calling sequence
RTMaxCap == 4
\* buffer_size of the keyword calling sequence
KWCap == 6
\* longest payload and largest number of segments of the keyword calling sequence
MaxPayload == 1
MaxSegs == 2
\* largest buffer_size of the single-call sequence
CallMaxCap == 3
\* largest buffer_size of the interrupt model
IrqMaxCap == 3
\* largest buffer_size of the producer/consumer model, and the number of
\* bytes its producer has to send
PCMaxCap == 3
MaxSent == 3

Bytes == 0 .. MaxByte

\* ------------------------------------------------------ program constants
RING_BUFFER_SUCCESS == 1
RING_BUFFER_ERROR == 0
\* size of keyword_byte[] and of a uint32_t keyword, in bytes
KEYWORD_BYTES == 4
\* largest value of a uint8_t argument
UINT8_MAX == 255
\* Ring_Buffer_Find_Keyword never returns: its loop condition cannot fail
NO_RETURN == 0 - 1

\* unsigned 32-bit comparisons on signed residues
ULt(a, b) == IF (a < 0) = (b < 0) THEN a < b ELSE b < 0
ULe(a, b) == a = b \/ ULt(a, b)

RECURSIVE SeqsUpTo(_, _)
\* all sequences over S of length 0..n
SeqsUpTo(S, n) ==
    IF n = 0 THEN {<< >>}
    ELSE LET shorter == SeqsUpTo(S, n - 1)
         IN shorter \cup {Append(s, x) : s \in {t \in shorter : Len(t) = n - 1}, x \in S}

\* the 32-bit keywords handed to the keyword calls: each of the four bytes
\* is the least or the greatest byte of the modelled alphabet
Keywords == [1 .. KEYWORD_BYTES -> {0, MaxByte}]
\* (keyword >> 8*i) & 0xFF
Digit(keyword, i) == keyword[i + 1]

\* ------------------------------------------------------------------ state
VARIABLES
    head,        \* ring_buffer.head
    tail,        \* ring_buffer.tail
    lenght,      \* ring_buffer.lenght (spelled as in the source)
    array,       \* the bytes at ring_buffer.array_addr: [0..max_length-1 -> byte]
    max_length,  \* ring_buffer.max_length
    byte_order,  \* __BYTE_ORDER__ of the build: "little" or "big"
    queue,       \* history: bytes accepted by writes and not yet removed
    op,          \* history: name of the last call
    arg,         \* history: length (or byte, or keyword length) argument of the last call
    ret,         \* history: return value of the last call
    out,         \* history: bytes the last call copied to output_addr
    pc,          \* position of the calling sequence (scenario specifications)
    sc           \* data of the calling sequence (scenario specifications)

rbvars == <<head, tail, lenght, array, max_length>>
vars == <<head, tail, lenght, array, max_length, byte_order, queue, op, arg, ret, out, pc, sc>>

\* the ring_buffer structure together with the array it is bound to
RB == [head |-> head, tail |-> tail, lenght |-> lenght,
       array |-> array, max_length |-> max_length]

\* result of a call: new structure, return value, bytes copied out
Outcome(rb, r, o) == [rb |-> rb, ret |-> r, out |-> o]

\* *(array_addr + i): the stored byte, or any byte when i is outside the array
Load(rb, i) == IF i \in DOMAIN rb.array THEN {rb.array[i]} ELSE Bytes

\* memcpy(dst, array_addr + start, n): the possible n-byte results
MemRead(rb, start, n) ==
    IF \A j \in 0 .. n - 1 : start + j \in DOMAIN rb.array
    THEN {[j \in 1 .. n |-> rb.array[start + j - 1]]}
    ELSE {s \in [1 .. n -> Bytes] : \A j \in 1 .. n : s[j] \in Load(rb, start + j - 1)}

\* memcpy(array_addr + start, data, Len(data))
MemWrite(arr, start, data) ==
    [i \in DOMAIN arr |->
        IF i - start \in 0 .. Len(data) - 1 THEN data[i - start + 1] ELSE arr[i]]

\* ------------------------------------------------------------- operations
\* Ring_Buffer_Init accepting a buffer of one element
Init_AcceptsOneElement(buffer, buffer_size) ==
    Outcome([head |-> 0, tail |-> 0, lenght |-> 0,
             array |-> buffer, max_length |-> buffer_size],
            IF ULt(buffer_size, 1) THEN RING_BUFFER_ERROR ELSE RING_BUFFER_SUCCESS,
            << >>)

\* Ring_Buffer_Init: the fields are set before buffer_size is checked
Ring_Buffer_Init(buffer, buffer_size) ==
    Outcome([head |-> 0, tail |-> 0, lenght |-> 0,
             array |-> buffer, max_length |-> buffer_size],
            IF ULt(buffer_size, 2) THEN RING_BUFFER_ERROR ELSE RING_BUFFER_SUCCESS,
            << >>)

\* Ring_Buffer_Delete(handle, uint8_t lenght)
Ring_Buffer_Delete(rb, n) ==
    IF ULt(rb.lenght, n)
    THEN Outcome(rb, RING_BUFFER_ERROR, << >>)
    ELSE Outcome([rb EXCEPT
                    !.head = IF ULe(rb.max_length, rb.head + n)
                             THEN n - (rb.max_length - rb.head)
                             ELSE rb.head + n,
                    !.lenght = rb.lenght - n],
                 RING_BUFFER_SUCCESS, << >>)

\* Ring_Buffer_Write_Byte
Ring_Buffer_Write_Byte(rb, rb_data) ==
    IF rb.lenght = rb.max_length - 1
    THEN Outcome(rb, RING_BUFFER_ERROR, << >>)
    ELSE Outcome([rb EXCEPT
                    !.array = MemWrite(rb.array, rb.tail, <<rb_data>>),
                    !.lenght = rb.lenght + 1,
                    !.tail = IF ULt(rb.max_length - 1, rb.tail + 1) THEN 0 ELSE rb.tail + 1],
                 RING_BUFFER_SUCCESS, << >>)

\* Ring_Buffer_Read_Byte reading the byte after head has been advanced
Read_Byte_AfterAdvance(rb) ==
    LET next == IF ULt(rb.max_length - 1, rb.head + 1) THEN 0 ELSE rb.head + 1
    IN IF rb.lenght # 0
       THEN {Outcome([rb EXCEPT !.head = next, !.lenght = rb.lenght - 1], b, << >>) :
                b \in Load(rb, next)}
       ELSE {Outcome(rb, b, << >>) : b \in Bytes}

\* Ring_Buffer_Read_Byte: no status is returned; ret is the byte.  With
\* lenght = 0 the uninitialised rb_data is returned.
Ring_Buffer_Read_Byte(rb) ==
    IF rb.lenght # 0
    THEN {Outcome([rb EXCEPT
                     !.head = IF ULt(rb.max_length - 1, rb.head + 1) THEN 0 ELSE rb.head + 1,
                     !.lenght = rb.lenght - 1],
                  b, << >>) : b \in Load(rb, rb.head)}
    ELSE {Outcome(rb, b, << >>) : b \in Bytes}

\* Ring_Buffer_Write_String keeping one slot free as Ring_Buffer_Write_Byte
\* does: a block is rejected when lenght + write_lenght > max_length - 1
Write_String_KeepsSlotFree(rb, input) ==
    LET write_lenght == Len(input)
        split        == ULt(rb.max_length - rb.tail, write_lenght)
        write_size_a == IF split THEN rb.max_length - rb.tail ELSE write_lenght
        write_size_b == IF split THEN write_lenght - write_size_a ELSE 0
    IN IF ULt(rb.max_length - 1, rb.lenght + write_lenght)
       THEN Outcome(rb, RING_BUFFER_ERROR, << >>)
       ELSE Outcome([rb EXCEPT
                       !.array = MemWrite(MemWrite(rb.array, rb.tail,
                                                   SubSeq(input, 1, write_size_a)),
                                          0, SubSeq(input, write_size_a + 1, write_lenght)),
                       !.lenght = rb.lenght + write_lenght,
                       !.tail = IF split THEN write_size_b
                                ELSE IF rb.tail + write_size_a = rb.max_length
                                THEN 0 ELSE rb.tail + write_size_a],
                    RING_BUFFER_SUCCESS, << >>)

\* Ring_Buffer_Write_String(handle, input_addr, write_lenght) with
\* input = input_addr[0 .. write_lenght-1]
Ring_Buffer_Write_String(rb, input) ==
    LET write_lenght == Len(input)
        split        == ULt(rb.max_length - rb.tail, write_lenght)
        write_size_a == IF split THEN rb.max_length - rb.tail ELSE write_lenght
        write_size_b == IF split THEN write_lenght - write_size_a ELSE 0
    IN IF ULt(rb.max_length, rb.lenght + write_lenght)
       THEN Outcome(rb, RING_BUFFER_ERROR, << >>)
       ELSE IF write_size_b # 0
       THEN Outcome([rb EXCEPT
                       !.array = MemWrite(MemWrite(rb.array, rb.tail,
                                                   SubSeq(input, 1, write_size_a)),
                                          0, SubSeq(input, write_size_a + 1, write_lenght)),
                       !.lenght = rb.lenght + write_lenght,
                       !.tail = write_size_b],
                    RING_BUFFER_SUCCESS, << >>)
       ELSE Outcome([rb EXCEPT
                       !.array = MemWrite(rb.array, rb.tail, input),
                       !.lenght = rb.lenght + write_lenght,
                       !.tail = IF rb.tail + write_size_a = rb.max_length
                                THEN 0 ELSE rb.tail + write_size_a],
                    RING_BUFFER_SUCCESS, << >>)

\* Ring_Buffer_Read_String with the two parts of a split read copied to
\* output_addr in the wrong order
Read_String_PartsSwapped(rb, read_lenght) ==
    LET split       == ULt(rb.max_length - rb.head, read_lenght)
        Read_size_a == IF split THEN rb.max_length - rb.head ELSE read_lenght
        Read_size_b == IF split THEN read_lenght - Read_size_a ELSE 0
    IN IF ULt(rb.lenght, read_lenght)
       THEN {Outcome(rb, RING_BUFFER_ERROR, << >>)}
       ELSE {Outcome([rb EXCEPT !.lenght = rb.lenght - read_lenght,
                                !.head = IF split THEN Read_size_b
                                         ELSE IF rb.head + Read_size_a = rb.max_length
                                         THEN 0 ELSE rb.head + Read_size_a],
                     RING_BUFFER_SUCCESS, b \o a) :
                a \in MemRead(rb, rb.head, Read_size_a),
                b \in MemRead(rb, 0, Read_size_b)}

\* Ring_Buffer_Read_String(handle, output_addr, read_lenght)
Ring_Buffer_Read_String(rb, read_lenght) ==
    LET split       == ULt(rb.max_length - rb.head, read_lenght)
        Read_size_a == IF split THEN rb.max_length - rb.head ELSE read_lenght
        Read_size_b == IF split THEN read_lenght - Read_size_a ELSE 0
    IN IF ULt(rb.lenght, read_lenght)
       THEN {Outcome(rb, RING_BUFFER_ERROR, << >>)}
       ELSE IF Read_size_b # 0
       THEN {Outcome([rb EXCEPT !.lenght = rb.lenght - read_lenght,
                                !.head = Read_size_b],
                     RING_BUFFER_SUCCESS, a \o b) :
                a \in MemRead(rb, rb.head, Read_size_a),
                b \in MemRead(rb, 0, Read_size_b)}
       ELSE {Outcome([rb EXCEPT !.lenght = rb.lenght - read_lenght,
                                !.head = IF rb.head + Read_size_a = rb.max_length
                                         THEN 0 ELSE rb.head + Read_size_a],
                     RING_BUFFER_SUCCESS, a) :
                a \in MemRead(rb, rb.head, Read_size_a)}

\* the bytes Ring_Buffer_Insert_Keyword hands to Ring_Buffer_Write_String.
\* keyword_byte[j] holds (keyword >> 8*(3-j)) & 0xFF in both branches; the
\* little-endian branch passes keyword_byte, the big-endian branch passes
\* keyword_byte + (keyword_lenght - 1), which runs past keyword_byte[3] for
\* keyword_lenght >= 3.
KeywordInput(keyword, keyword_lenght, order) ==
    LET first == IF order = "little" THEN 0 ELSE keyword_lenght - 1
        keyword_byte(j) == IF j < KEYWORD_BYTES
                           THEN {Digit(keyword, KEYWORD_BYTES - 1 - j)}
                           ELSE Bytes
    IN {s \in [1 .. keyword_lenght -> Bytes] :
            \A j \in 1 .. keyword_lenght : s[j] \in keyword_byte(first + j - 1)}

\* Ring_Buffer_Insert_Keyword(handle, keyword, keyword_lenght)
Ring_Buffer_Insert_Keyword(rb, keyword, keyword_lenght, order) ==
    {Ring_Buffer_Write_String(rb, input) :
        input \in KeywordInput(keyword, keyword_lenght, order)}

\* the index after i, as find_head++ / head++ followed by the wrap test
NextIndex(rb, i) == IF ULt(rb.max_length - 1, i + 1) THEN 0 ELSE i + 1

\* *(array_addr + i) where g is the byte found outside the array
ByteAt(rb, g, i) == IF i \in DOMAIN rb.array THEN rb.array[i] ELSE g

RECURSIVE WordIndex(_, _, _)
\* the index Ring_Buffer_Get_Word reads in its i-th iteration (i = 1, 2, ...)
WordIndex(rb, word_head, i) ==
    IF i = 1 THEN word_head ELSE NextIndex(rb, WordIndex(rb, word_head, i - 1))

\* Ring_Buffer_Get_Word(handle, head, read_lenght): iteration i ORs the byte
\* it reads into bits 8*(read_lenght-i) .. 8*(read_lenght-i)+7
Ring_Buffer_Get_Word(rb, g, word_head, read_lenght) ==
    [d \in 1 .. KEYWORD_BYTES |->
        IF d <= read_lenght
        THEN ByteAt(rb, g, WordIndex(rb, word_head, read_lenght - (d - 1)))
        ELSE 0]

RECURSIVE FindLoop(_, _, _, _, _, _)
\* the while loop of Ring_Buffer_Find_Keyword.  Once distance exceeds
\* max_length + 1 every index of the array has been the candidate and none
\* matched, so no later iteration matches either: the loop then runs until
\* distance > max_find_lenght, which never happens when max_find_lenght is
\* 0xFFFFFFFF.
FindLoop(rb, g, keyword, keyword_lenght, distance, find_head) ==
    LET max_find_lenght == rb.lenght - keyword_lenght + 1
        trigger_word    == Digit(keyword, keyword_lenght - 1)
    IN IF ~ULe(distance, max_find_lenght) THEN RING_BUFFER_ERROR
       ELSE IF /\ ByteAt(rb, g, find_head) = trigger_word
               /\ Ring_Buffer_Get_Word(rb, g, find_head, keyword_lenght) = keyword
       THEN distance
       ELSE IF distance > rb.max_length + 1
       THEN (IF max_find_lenght = 0 - 1 THEN NO_RETURN ELSE RING_BUFFER_ERROR)
       ELSE FindLoop(rb, g, keyword, keyword_lenght, distance + 1, NextIndex(rb, find_head))

\* Ring_Buffer_Find_Keyword counting the distance to the end of the keyword:
\* distance starts at keyword_lenght instead of 1
Find_Keyword_EndDistance(rb, keyword, keyword_lenght) ==
    {FindLoop([rb EXCEPT !.lenght = rb.lenght + keyword_lenght - 1],
              g, keyword, keyword_lenght, keyword_lenght, rb.head) :
        g \in IF rb.head \in DOMAIN rb.array THEN {0} ELSE Bytes}

\* Ring_Buffer_Find_Keyword(handle, keyword, keyword_lenght): the possible
\* return values (one, unless head lies outside the array)
Ring_Buffer_Find_Keyword(rb, keyword, keyword_lenght) ==
    {FindLoop(rb, g, keyword, keyword_lenght, 1, rb.head) :
        g \in IF rb.head \in DOMAIN rb.array THEN {0} ELSE Bytes}

\* Ring_Buffer_Get_Length
Ring_Buffer_Get_Length(rb) == rb.lenght

\* Ring_Buffer_Get_FreeSize
Ring_Buffer_Get_FreeSize(rb) == rb.max_length - rb.lenght

\* ------------------------------------------------------------ transitions
\* the caller-supplied arrays of buffer_size bytes
Buffers(buffer_size) == [0 .. buffer_size - 1 -> Bytes]

\* keywords handed to the keyword calls of the free-running model
FreeKeywords == {k \in Keywords : \A d \in 1 .. KEYWORD_BYTES : d > KeywordDigits => k[d] = 0}

\* blocks handed to Ring_Buffer_Write_String
Blocks == SeqsUpTo(Bytes, MaxBlock)

\* the handle is used only after a successful Ring_Buffer_Init, and only by
\* a caller whose previous call has returned
Usable == ~ULt(max_length, 2) /\ ~(op = "find_keyword" /\ ret = NO_RETURN)

\* the call `name` with length argument n ends with outcome r; q is the
\* history queue after it
Effect(name, n, r, q) ==
    /\ head' = r.rb.head
    /\ tail' = r.rb.tail
    /\ lenght' = r.rb.lenght
    /\ array' = r.rb.array
    /\ max_length' = r.rb.max_length
    /\ op' = name
    /\ arg' = n
    /\ ret' = r.ret
    /\ out' = r.out
    /\ queue' = q
    /\ UNCHANGED byte_order

\* a call of the free-running model
Return(name, n, r, q) == Effect(name, n, r, q) /\ UNCHANGED <<pc, sc>>

\* the n bytes stored last: those in front of the tail of rb
Written(rb, n) == [i \in 1 .. n |-> rb.array[(rb.tail - n + i - 1) % rb.max_length]]

\* the history queue without its first n bytes
Drop(q, n) == SubSeq(q, n + 1, Len(q))

\* a caller-supplied array of buffer_size zero bytes (static storage)
ZeroBuffer(buffer_size) == [i \in 0 .. buffer_size - 1 |-> 0]

\* the state Ring_Buffer_Init leaves, for the given arrays and buffer_sizes
InitState(sizes, zeroed) ==
    \E buffer_size \in sizes :
    \E buffer \in IF zeroed THEN {ZeroBuffer(buffer_size)} ELSE Buffers(buffer_size) :
        LET r == Ring_Buffer_Init(buffer, buffer_size)
        IN /\ head = r.rb.head
           /\ tail = r.rb.tail
           /\ lenght = r.rb.lenght
           /\ array = r.rb.array
           /\ max_length = r.rb.max_length
           /\ op = "init"
           /\ arg = buffer_size
           /\ ret = r.ret
           /\ out = r.out
           /\ queue = << >>

Init ==
    /\ InitState(0 .. MaxCap, FALSE)
    /\ byte_order \in {"little", "big"}
    /\ pc = "free"
    /\ sc = << >>

ReInit ==
    /\ ~(op = "find_keyword" /\ ret = NO_RETURN)
    /\ \E buffer_size \in 0 .. MaxCap : \E buffer \in Buffers(buffer_size) :
          Return("init", buffer_size, Ring_Buffer_Init(buffer, buffer_size), << >>)

WriteByte ==
    /\ Usable
    /\ lenght < LenBound
    /\ \E rb_data \in Bytes :
          LET r == Ring_Buffer_Write_Byte(RB, rb_data)
          IN Return("write_byte", rb_data, r,
                    IF r.ret = RING_BUFFER_SUCCESS THEN Append(queue, rb_data) ELSE queue)

ReadByte ==
    /\ Usable
    /\ \E r \in Ring_Buffer_Read_Byte(RB) :
          /\ r.rb.head <= LenBound
          /\ Return("read_byte", 0, r, IF lenght # 0 THEN Drop(queue, 1) ELSE queue)

WriteString ==
    /\ Usable
    /\ \E input \in Blocks :
          LET r == Ring_Buffer_Write_String(RB, input)
          IN /\ lenght + Len(input) <= LenBound
             /\ Return("write_block", Len(input), r,
                       IF r.ret = RING_BUFFER_SUCCESS THEN queue \o input ELSE queue)

ReadString ==
    /\ Usable
    /\ \E read_lenght \in 0 .. LenBound + 1 :
          \E r \in Ring_Buffer_Read_String(RB, read_lenght) :
             /\ r.rb.head <= LenBound
             /\ Return("read_block", read_lenght, r,
                       IF r.ret = RING_BUFFER_SUCCESS THEN Drop(queue, read_lenght) ELSE queue)

\* conversion of an argument to the uint8_t parameter it is passed as
ToUint8(n) == n % (UINT8_MAX + 1)

\* the lengths a caller asks Ring_Buffer_Delete to remove: every length up to
\* one more than lenght can be, and the first lengths that do not fit the
\* uint8_t parameter
DeleteLengths == (0 .. LenBound + 1) \cup {UINT8_MAX + 1, UINT8_MAX + 2}

\* arg records the length the caller asked for
Delete ==
    /\ Usable
    /\ \E n \in DeleteLengths :
          LET r == Ring_Buffer_Delete(RB, ToUint8(n))
          IN /\ r.rb.head <= LenBound
             /\ Return("delete", n, r,
                       IF r.ret = RING_BUFFER_SUCCESS
                       THEN Drop(queue, ToUint8(n)) ELSE queue)

InsertKeyword ==
    /\ Usable
    /\ \E keyword \in FreeKeywords : \E keyword_lenght \in 1 .. KEYWORD_BYTES :
          \E r \in Ring_Buffer_Insert_Keyword(RB, keyword, keyword_lenght, byte_order) :
             /\ lenght + keyword_lenght <= LenBound
             /\ Return("insert_keyword", keyword_lenght, r,
                       IF r.ret = RING_BUFFER_SUCCESS
                       THEN queue \o Written(r.rb, keyword_lenght) ELSE queue)

FindKeyword ==
    /\ Usable
    /\ \E keyword \in FreeKeywords : \E keyword_lenght \in 1 .. KEYWORD_BYTES :
          \E d \in Ring_Buffer_Find_Keyword(RB, keyword, keyword_lenght) :
             Return("find_keyword", keyword_lenght, Outcome(RB, d, << >>), queue)

GetLength ==
    /\ Usable
    /\ Return("len", 0, Outcome(RB, Ring_Buffer_Get_Length(RB), << >>), queue)

GetFreeSize ==
    /\ Usable
    /\ Return("free_space", 0, Outcome(RB, Ring_Buffer_Get_FreeSize(RB), << >>), queue)

Next ==
    \/ ReInit
    \/ WriteByte
    \/ ReadByte
    \/ WriteString
    \/ ReadString
    \/ Delete
    \/ InsertKeyword
    \/ FindKeyword
    \/ GetLength
    \/ GetFreeSize

Spec == Init /\ [][Next]_vars

\* ------------------------------------------- round-trip calling sequence
\* Ring_Buffer_Init; write p bytes and read them back, which leaves an empty
\* buffer with head = tail = p; then Ring_Buffer_Write_String of a block and
\* Ring_Buffer_Read_String of the same length.

\* the call `name` ends with outcome r and the calling sequence moves on
Step(name, n, r, q, nextpc, nextsc) ==
    /\ Effect(name, n, r, q)
    /\ pc' = nextpc
    /\ sc' = nextsc

InitRT ==
    /\ InitState(2 .. RTMaxCap, TRUE)
    /\ byte_order = "little"
    /\ pc = "rt_fill"
    /\ sc = [p |-> 0, blk |-> << >>]

RTFill ==
    /\ pc = "rt_fill"
    /\ \E input \in SeqsUpTo(Bytes, max_length - 1) :
          LET r == Ring_Buffer_Write_String(RB, input)
          IN /\ r.ret = RING_BUFFER_SUCCESS
             /\ Step("write_block", Len(input), r, queue \o input,
                     "rt_drain", [sc EXCEPT !.p = Len(input)])

RTDrain ==
    /\ pc = "rt_drain"
    /\ \E r \in Ring_Buffer_Read_String(RB, sc.p) :
          /\ r.ret = RING_BUFFER_SUCCESS
          /\ Step("read_block", sc.p, r, Drop(queue, sc.p), "rt_write", sc)

RTWrite ==
    /\ pc = "rt_write"
    /\ \E input \in SeqsUpTo(Bytes, Ring_Buffer_Get_FreeSize(RB)) :
          LET r == Ring_Buffer_Write_String(RB, input)
          IN Step("write_block", Len(input), r,
                  IF r.ret = RING_BUFFER_SUCCESS THEN queue \o input ELSE queue,
                  IF r.ret = RING_BUFFER_SUCCESS THEN "rt_read" ELSE "rt_failed",
                  [sc EXCEPT !.blk = input])

RTRead ==
    /\ pc = "rt_read"
    /\ \E r \in Ring_Buffer_Read_String(RB, Len(sc.blk)) :
          Step("read_block", Len(sc.blk), r,
               IF r.ret = RING_BUFFER_SUCCESS THEN Drop(queue, Len(sc.blk)) ELSE queue,
               IF r.ret = RING_BUFFER_SUCCESS THEN "rt_done" ELSE "rt_failed",
               sc)

NextRT ==
    \/ RTFill
    \/ RTDrain
    \/ RTWrite
    \/ RTRead

SpecRT == InitRT /\ [][NextRT]_vars

\* ---------------------------------------------- keyword calling sequence
\* The calls of test_rb_find_keyword for any keyword and payloads:
\* Ring_Buffer_Init; for each segment Ring_Buffer_Write_String of a payload
\* and Ring_Buffer_Insert_Keyword; then, once per segment,
\* Ring_Buffer_Find_Keyword, Ring_Buffer_Read_String of the distance - 1 and
\* Ring_Buffer_Delete of the keyword length.  As in the test, no return
\* status stops the sequence.
InitKW ==
    /\ InitState({KWCap}, TRUE)
    /\ byte_order \in {"little", "big"}
    /\ pc = "kw_payload"
    /\ \E keyword \in Keywords : \E keyword_lenght \in 1 .. KEYWORD_BYTES :
          sc = [keyword |-> keyword, keyword_lenght |-> keyword_lenght,
                segs |-> << >>, j |-> 0]

KWPayload ==
    /\ pc = "kw_payload"
    /\ Len(sc.segs) < MaxSegs
    /\ \E payload \in SeqsUpTo(Bytes, MaxPayload) :
          LET r == Ring_Buffer_Write_String(RB, payload)
          IN /\ r.ret = RING_BUFFER_SUCCESS
             /\ Step("write_block", Len(payload), r, queue \o payload,
                     "kw_keyword", [sc EXCEPT !.segs = Append(sc.segs, payload)])

KWKeyword ==
    /\ pc = "kw_keyword"
    /\ \E r \in Ring_Buffer_Insert_Keyword(RB, sc.keyword, sc.keyword_lenght, byte_order) :
          /\ r.ret = RING_BUFFER_SUCCESS
          /\ Step("insert_keyword", sc.keyword_lenght, r,
                  queue \o Written(r.rb, sc.keyword_lenght), "kw_payload", sc)

KWFind ==
    /\ \/ pc = "kw_payload" /\ Len(sc.segs) >= 1
       \/ pc = "kw_find"
    /\ \E d \in Ring_Buffer_Find_Keyword(RB, sc.keyword, sc.keyword_lenght) :
          Step("find_keyword", sc.keyword_lenght, Outcome(RB, d, << >>), queue,
               IF d = NO_RETURN THEN "kw_hung" ELSE "kw_read", sc)

KWRead ==
    /\ pc = "kw_read"
    /\ \E r \in Ring_Buffer_Read_String(RB, ret - 1) :
          Step("read_block", ret - 1, r,
               IF r.ret = RING_BUFFER_SUCCESS THEN Drop(queue, ret - 1) ELSE queue,
               "kw_delete", sc)

KWDelete ==
    /\ pc = "kw_delete"
    /\ LET r == Ring_Buffer_Delete(RB, sc.keyword_lenght)
       IN Step("delete", sc.keyword_lenght, r,
               IF r.ret = RING_BUFFER_SUCCESS THEN Drop(queue, sc.keyword_lenght) ELSE queue,
               IF sc.j + 1 = Len(sc.segs) THEN "kw_done" ELSE "kw_find",
               [sc EXCEPT !.j = sc.j + 1])

NextKW ==
    \/ KWPayload
    \/ KWKeyword
    \/ KWFind
    \/ KWRead
    \/ KWDelete

SpecKW == InitKW /\ [][NextKW]_vars

\* ------------------------------------------------- single-call sequence
\* Ring_Buffer_Init; Ring_Buffer_Write_String of p bytes, Ring_Buffer_Read_String
\* of q of them and Ring_Buffer_Write_String of r more, which puts head, tail
\* and lenght at any position the three calls can reach; then one call of
\* Ring_Buffer_Write_String with any block, or of Ring_Buffer_Init with any
\* buffer_size, or one of the queries Ring_Buffer_Find_Keyword,
\* Ring_Buffer_Get_Length and Ring_Buffer_Get_FreeSize followed by a
\* Ring_Buffer_Read_String.  sc.before is the structure as that call found
\* it and sc.result what the query returned.

\* n data bytes, the first of them being byte number `from` of the stream
Pattern(from, n) == [i \in 1 .. n |-> (from + i - 1) % (MaxByte + 1)]

\* a fresh array of buffer_size bytes, none of them zero
FreshBuffer(buffer_size) == [i \in 0 .. buffer_size - 1 |-> MaxByte]

InitCall ==
    /\ InitState(2 .. CallMaxCap, TRUE)
    /\ byte_order = "little"
    /\ pc = "call_fill"
    /\ sc = [before |-> RB, input |-> << >>, buffer_size |-> max_length, result |-> 0]

CallFill ==
    /\ pc \in {"call_fill", "call_refill"}
    /\ \E n \in 0 .. max_length :
          LET input == Pattern(Len(queue) + head, n)
              r     == Ring_Buffer_Write_String(RB, input)
          IN /\ r.ret = RING_BUFFER_SUCCESS
             /\ Step("write_block", n, r, queue \o input,
                     IF pc = "call_fill" THEN "call_drain" ELSE "call_ready", sc)

CallDrain ==
    /\ pc = "call_drain"
    /\ \E n \in 0 .. lenght : \E r \in Ring_Buffer_Read_String(RB, n) :
          /\ r.ret = RING_BUFFER_SUCCESS
          /\ Step("read_block", n, r, Drop(queue, n), "call_refill", sc)

CallWriteString ==
    /\ pc = "call_ready"
    /\ \E input \in SeqsUpTo(Bytes, max_length + 1) :
          LET r == Ring_Buffer_Write_String(RB, input)
          IN Step("write_block", Len(input), r,
                  IF r.ret = RING_BUFFER_SUCCESS THEN queue \o input ELSE queue,
                  "write_done", [sc EXCEPT !.before = RB, !.input = input])

CallInit ==
    /\ pc = "call_ready"
    /\ \E buffer_size \in 0 .. CallMaxCap :
          Step("init", buffer_size,
               Ring_Buffer_Init(FreshBuffer(buffer_size), buffer_size), << >>,
               "init_done", [sc EXCEPT !.before = RB, !.buffer_size = buffer_size])

\* the query `name` with argument n has returned d
Queried(name, n, rb, d) ==
    Step(name, n, Outcome(rb, d, << >>), queue,
         IF d = NO_RETURN THEN "call_hung" ELSE "query_done",
         [sc EXCEPT !.before = RB, !.result = d])

\* Ring_Buffer_Find_Keyword removing the bytes in front of the match
CallFind_Consuming ==
    /\ pc = "call_ready"
    /\ \E keyword \in Keywords : \E keyword_lenght \in 1 .. KEYWORD_BYTES :
          \E d \in Ring_Buffer_Find_Keyword(RB, keyword, keyword_lenght) :
             Queried("find_keyword", keyword_lenght,
                     IF d >= 1 THEN Ring_Buffer_Delete(RB, d - 1).rb ELSE RB, d)

CallFind ==
    /\ pc = "call_ready"
    /\ \E keyword \in Keywords : \E keyword_lenght \in 1 .. KEYWORD_BYTES :
          \E d \in Ring_Buffer_Find_Keyword(RB, keyword, keyword_lenght) :
             Queried("find_keyword", keyword_lenght, RB, d)

CallGetLength ==
    /\ pc = "call_ready"
    /\ Queried("len", 0, RB, Ring_Buffer_Get_Length(RB))

CallGetFreeSize ==
    /\ pc = "call_ready"
    /\ Queried("free_space", 0, RB, Ring_Buffer_Get_FreeSize(RB))

\* the read that follows a query
CallRead ==
    /\ pc = "query_done"
    /\ \E read_lenght \in 0 .. lenght + 1 :
          \E r \in Ring_Buffer_Read_String(RB, read_lenght) :
             Step("read_block", read_lenght, r,
                  IF r.ret = RING_BUFFER_SUCCESS THEN Drop(queue, read_lenght) ELSE queue,
                  "read_done", sc)

NextCall ==
    \/ CallFill
    \/ CallDrain
    \/ CallWriteString
    \/ CallInit
    \/ CallFind
    \/ CallGetLength
    \/ CallGetFreeSize
    \/ CallRead

SpecCall == InitCall /\ [][NextCall]_vars

\* ------------------------------------------------------- interrupt model
\* A producer calling Ring_Buffer_Write_Byte and a consumer calling
\* Ring_Buffer_Read_Byte or Ring_Buffer_Delete on the same handle, each call
\* executed statement by statement, with lenght++ / lenght-- / lenght -= n
\* as a load followed by a store.  pc holds the position of each of the two
\* and sc their locals.  With sc.serialized the caller serializes the calls:
\* a call starts only when the other side is idle; without it the steps of
\* the two interleave freely, as when one side is an interrupt handler.

Idle == [producer |-> "idle", consumer |-> "idle"]

\* the history of the last call is not kept in this model
NoHistory == UNCHANGED <<op, arg, ret, out>>

\* `side` may start a call
MayCall(side, other) ==
    /\ pc[side] = "idle"
    /\ sc.serialized => pc[other] = "idle"

InitIrq ==
    /\ InitState(2 .. IrqMaxCap, TRUE)
    /\ byte_order = "little"
    /\ pc = Idle
    /\ \E serialized \in BOOLEAN :
          sc = [serialized |-> serialized, rb_data |-> 0, p_len |-> 0,
                c_len |-> 0, n |-> 0]

\* Ring_Buffer_Write_Byte, line 77: the full test.  The producer writes the
\* bytes of a fixed stream, and stops calling once max_length accepted bytes
\* have not been removed.
WB_Test ==
    /\ MayCall("producer", "consumer")
    /\ Len(queue) < max_length
    /\ IF lenght = max_length - 1
       THEN UNCHANGED <<pc, sc>>
       ELSE /\ pc' = [pc EXCEPT !.producer = "wb_store"]
            /\ sc' = [sc EXCEPT !.rb_data = Pattern(Len(queue), 1)[1]]
    /\ NoHistory
    /\ UNCHANGED <<rbvars, byte_order, queue>>

\* line 81: *(array_addr + tail) = rb_data
WB_Store ==
    /\ pc.producer = "wb_store"
    /\ array' = MemWrite(array, tail, <<sc.rb_data>>)
    /\ pc' = [pc EXCEPT !.producer = "wb_len_load"]
    /\ NoHistory
    /\ UNCHANGED <<head, tail, lenght, max_length, byte_order, queue, sc>>

\* line 82, lenght++: the load
WB_LoadLength ==
    /\ pc.producer = "wb_len_load"
    /\ sc' = [sc EXCEPT !.p_len = lenght]
    /\ pc' = [pc EXCEPT !.producer = "wb_len_store"]
    /\ NoHistory
    /\ UNCHANGED <<rbvars, byte_order, queue>>

\* line 82, lenght++ with the store left out
WB_StoreLength_Missing ==
    /\ pc.producer = "wb_len_store"
    /\ pc' = [pc EXCEPT !.producer = "wb_tail"]
    /\ NoHistory
    /\ UNCHANGED <<rbvars, byte_order, queue, sc>>

\* line 82, lenght++: the store
WB_StoreLength ==
    /\ pc.producer = "wb_len_store"
    /\ lenght' = sc.p_len + 1
    /\ pc' = [pc EXCEPT !.producer = "wb_tail"]
    /\ NoHistory
    /\ UNCHANGED <<head, tail, array, max_length, byte_order, queue, sc>>

\* lines 83-88: tail++, the wrap of tail, return RING_BUFFER_SUCCESS
WB_Tail ==
    /\ pc.producer = "wb_tail"
    /\ tail' = IF ULt(max_length - 1, tail + 1) THEN 0 ELSE tail + 1
    /\ pc' = [pc EXCEPT !.producer = "idle"]
    /\ queue' = Append(queue, sc.rb_data)
    /\ NoHistory
    /\ UNCHANGED <<head, lenght, array, max_length, byte_order, sc>>

\* Ring_Buffer_Read_Byte, line 99: the empty test; on an empty buffer the
\* call returns at once
RB_Test ==
    /\ MayCall("consumer", "producer")
    /\ IF lenght # 0
       THEN pc' = [pc EXCEPT !.consumer = "rb_read"]
       ELSE UNCHANGED pc
    /\ NoHistory
    /\ UNCHANGED <<rbvars, byte_order, queue, sc>>

\* lines 101-102: rb_data = *(array_addr + head); head++
RB_Read ==
    /\ pc.consumer = "rb_read"
    /\ head' = head + 1
    /\ pc' = [pc EXCEPT !.consumer = "rb_len_load"]
    /\ NoHistory
    /\ UNCHANGED <<tail, lenght, array, max_length, byte_order, queue, sc>>

\* line 103, lenght--: the load
RB_LoadLength ==
    /\ pc.consumer = "rb_len_load"
    /\ sc' = [sc EXCEPT !.c_len = lenght]
    /\ pc' = [pc EXCEPT !.consumer = "rb_len_store"]
    /\ NoHistory
    /\ UNCHANGED <<rbvars, byte_order, queue>>

\* line 103, lenght--: the store
RB_StoreLength ==
    /\ pc.consumer = "rb_len_store"
    /\ lenght' = sc.c_len - 1
    /\ pc' = [pc EXCEPT !.consumer = "rb_wrap"]
    /\ NoHistory
    /\ UNCHANGED <<head, tail, array, max_length, byte_order, queue, sc>>

\* lines 105-108: the wrap of head, return rb_data
RB_Wrap ==
    /\ pc.consumer = "rb_wrap"
    /\ head' = IF ULt(max_length - 1, head) THEN 0 ELSE head
    /\ pc' = [pc EXCEPT !.consumer = "idle"]
    /\ queue' = Drop(queue, 1)
    /\ NoHistory
    /\ UNCHANGED <<tail, lenght, array, max_length, byte_order, sc>>

\* Ring_Buffer_Delete, line 53: the length test
Del_Test ==
    /\ MayCall("consumer", "producer")
    /\ \E n \in 1 .. max_length - 1 :
          IF ULt(lenght, ToUint8(n))
          THEN UNCHANGED <<pc, sc>>
          ELSE /\ pc' = [pc EXCEPT !.consumer = "del_head"]
               /\ sc' = [sc EXCEPT !.n = ToUint8(n)]
    /\ NoHistory
    /\ UNCHANGED <<rbvars, byte_order, queue>>

\* lines 57-60: head is advanced by the length
Del_Head ==
    /\ pc.consumer = "del_head"
    /\ head' = IF ULe(max_length, head + sc.n)
               THEN sc.n - (max_length - head) ELSE head + sc.n
    /\ pc' = [pc EXCEPT !.consumer = "del_len_load"]
    /\ NoHistory
    /\ UNCHANGED <<tail, lenght, array, max_length, byte_order, queue, sc>>

\* line 61, lenght -= lenght: the load
Del_LoadLength ==
    /\ pc.consumer = "del_len_load"
    /\ sc' = [sc EXCEPT !.c_len = lenght]
    /\ pc' = [pc EXCEPT !.consumer = "del_len_store"]
    /\ NoHistory
    /\ UNCHANGED <<rbvars, byte_order, queue>>

\* lines 61-62: the store, return RING_BUFFER_SUCCESS
Del_StoreLength ==
    /\ pc.consumer = "del_len_store"
    /\ lenght' = sc.c_len - sc.n
    /\ pc' = [pc EXCEPT !.consumer = "idle"]
    /\ queue' = Drop(queue, sc.n)
    /\ NoHistory
    /\ UNCHANGED <<head, tail, array, max_length, byte_order, sc>>

NextIrq ==
    \/ WB_Test
    \/ WB_Store
    \/ WB_LoadLength
    \/ WB_StoreLength
    \/ WB_Tail
    \/ RB_Test
    \/ RB_Read
    \/ RB_LoadLength
    \/ RB_StoreLength
    \/ RB_Wrap
    \/ Del_Test
    \/ Del_Head
    \/ Del_LoadLength
    \/ Del_StoreLength

SpecIrq == InitIrq /\ [][NextIrq]_vars

\* ----------------------------------------------- producer/consumer model
\* One producer calling Ring_Buffer_Write_Byte and one consumer calling
\* Ring_Buffer_Read_Byte whenever lenght > 0, the calls serialized (each is
\* one step).  The producer sends MaxSent bytes; a byte rejected because the
\* buffer is full is kept in sc.data and written again until it is accepted.
\* sc.sent are the bytes accepted so far, sc.recv the bytes returned so far.
InitPC ==
    /\ InitState(2 .. PCMaxCap, TRUE)
    /\ byte_order = "little"
    /\ pc = "running"
    /\ sc = [sent |-> << >>, recv |-> << >>, pending |-> FALSE, data |-> 0,
             failed |-> FALSE]

\* the producer's call with byte rb_data returns outcome r
PCWritten(rb_data, r) ==
    IF r.ret = RING_BUFFER_SUCCESS
    THEN Step("write_byte", rb_data, r, Append(queue, rb_data), pc,
              [sc EXCEPT !.sent = Append(sc.sent, rb_data), !.pending = FALSE])
    ELSE Step("write_byte", rb_data, r, queue, pc,
              [sc EXCEPT !.pending = TRUE, !.data = rb_data, !.failed = TRUE])

PCWrite ==
    /\ ~sc.pending
    /\ Len(sc.sent) < MaxSent
    /\ \E rb_data \in Bytes : PCWritten(rb_data, Ring_Buffer_Write_Byte(RB, rb_data))

PCRetry ==
    /\ sc.pending
    /\ PCWritten(sc.data, Ring_Buffer_Write_Byte(RB, sc.data))

PCRead ==
    /\ lenght # 0
    /\ \E r \in Ring_Buffer_Read_Byte(RB) :
          Step("read_byte", 0, r, Drop(queue, 1), pc,
               [sc EXCEPT !.recv = Append(sc.recv, r.ret)])

NextPC ==
    \/ PCWrite
    \/ PCRetry
    \/ PCRead

\* the consumer reads whenever lenght > 0, and a producer holding a rejected
\* byte keeps retrying
SpecPC == InitPC /\ [][NextPC]_vars /\ WF_vars(PCRead) /\ WF_vars(PCRetry)

\* ----------------------------------------------------------------- claims
\* a successful Ring_Buffer_Init has bound the handle
Initialised == ~ULt(max_length, 2)

\* the valid bytes: array[(head + i) mod max_length] for i in 0 .. lenght-1
Content == [i \in 1 .. lenght |-> array[(head + i - 1) % max_length]]

\* C1: after an init with capacity >= 2, length <= capacity - 1 in every
\* reachable state, whatever writes, reads and deletes are called.
C1_LengthBelowCapacity == Initialised => lenght <= max_length - 1

\* C2: the buffer refines a FIFO queue: length is the size of the queue of
\* bytes written and not yet removed, and the bytes at (head + i) mod
\* capacity, i in 0 .. length-1, are the queue's contents in order.
C2_RefinesFifo ==
    Initialised =>
        /\ lenght = Len(queue)
        /\ \A i \in 1 .. Len(queue) :
              /\ (head + i - 1) % max_length \in DOMAIN array
              /\ array[(head + i - 1) % max_length] = queue[i]

\* C3: after a successful init, head and tail are indices of the array in
\* every reachable state: 0 <= head < capacity and 0 <= tail < capacity.
C3_IndicesInRange ==
    Initialised => head \in 0 .. max_length - 1 /\ tail \in 0 .. max_length - 1

\* C4: when length = capacity - 1, every write of at least one byte
\* (write_byte, write_block, insert_keyword) fails and leaves head, tail,
\* length and the array unchanged.
C4_FullRejectsWrites ==
    [][(/\ Initialised
        /\ lenght = max_length - 1
        /\ op' \in {"write_byte", "write_block", "insert_keyword"}
        /\ (op' = "write_block" => arg' >= 1))
       => (ret' = RING_BUFFER_ERROR /\ UNCHANGED rbvars)]_vars

\* C5: from an empty buffer with head = tail at any index, write_block of a
\* block no longer than the free space followed by read_block of the same
\* length succeeds and returns the block, split across the end of the array
\* or not.
C5_RoundTrip ==
    /\ pc # "rt_failed"
    /\ pc = "rt_done" => ret = RING_BUFFER_SUCCESS /\ out = sc.blk

\* C5 witness: a block of differing bytes that was split across the end of
\* the array has been written and read back.
C5_SplitBlockReadBack ==
    /\ pc = "rt_done"
    /\ sc.p + Len(sc.blk) > max_length
    /\ out = sc.blk
    /\ \E i, j \in 1 .. Len(sc.blk) : sc.blk[i] # sc.blk[j]

\* C6: in every reachable state and for every n in 0 .. 255, delete(n) and
\* read_block(scratch, n) return the same status and leave the same head,
\* tail, length and array.
C6_DeleteEqualsRead ==
    Initialised =>
        \A n \in 0 .. UINT8_MAX :
            \A r \in Ring_Buffer_Read_String(RB, n) :
                /\ Ring_Buffer_Delete(RB, n).ret = r.ret
                /\ Ring_Buffer_Delete(RB, n).rb = r.rb

\* the keyword_lenght low bytes of keyword, most significant first
EncLow(keyword, keyword_lenght) ==
    [i \in 1 .. keyword_lenght |-> Digit(keyword, keyword_lenght - i)]

\* keyword < 256^keyword_lenght
KFits(keyword, keyword_lenght) ==
    \A d \in 1 .. KEYWORD_BYTES : d > keyword_lenght => keyword[d] = 0

\* the bytes w occur in s after i preceding bytes
OccursAt(s, w, i) ==
    /\ i + Len(w) <= Len(s)
    /\ \A k \in 1 .. Len(w) : s[i + k] = w[k]

\* the keyword bytes of the calling sequence, as the claims encode them
ScEnc == EncLow(sc.keyword, sc.keyword_lenght)

RECURSIVE Framed(_, _)
\* the payloads segs, each followed by the keyword bytes w
Framed(segs, w) ==
    IF segs = << >> THEN << >> ELSE Head(segs) \o w \o Framed(Tail(segs), w)

\* segment s of the calling sequence holds no match: in the framed bytes
\* from segment s on, no occurrence of the keyword bytes begins within the
\* payload of segment s (neither inside it nor running on into the keyword)
PayloadClean(s) ==
    LET rest == Framed(SubSeq(sc.segs, s, Len(sc.segs)), ScEnc)
    IN \A i \in 0 .. Len(sc.segs[s]) - 1 : ~OccursAt(rest, ScEnc, i)

\* C7 as stated: with P bytes that contain no match followed by the keyword
\* written by insert_keyword(K, L), find_keyword(K, L) returns P + L.
C7_DistancePastKeyword ==
    (/\ pc = "kw_read"
     /\ sc.j = 0
     /\ Len(sc.segs) = 1
     /\ KFits(sc.keyword, sc.keyword_lenght)
     /\ PayloadClean(1))
    => ret = Len(sc.segs[1]) + sc.keyword_lenght

\* C7 amended: when the keyword's L bytes (the L low bytes of K < 256^L,
\* most significant first) follow P valid bytes and no occurrence of them
\* begins earlier, find_keyword(K, L) returns P + 1, the 1-based position of
\* the keyword's first byte.
C7_DistanceToKeywordStart ==
    (pc = "kw_read" /\ KFits(sc.keyword, sc.keyword_lenght)) =>
        \A P \in 0 .. lenght - sc.keyword_lenght :
            (/\ OccursAt(Content, ScEnc, P)
             /\ \A i \in 0 .. P - 1 : ~OccursAt(Content, ScEnc, i))
            => ret = P + 1

\* C7 witness: a non-empty payload followed by a 4-byte keyword that
\* insert_keyword wrote, and find_keyword has returned the payload length + 1.
C7_FoundBehindPayload ==
    /\ pc = "kw_read"
    /\ sc.j = 0
    /\ sc.keyword_lenght = KEYWORD_BYTES
    /\ Len(sc.segs[1]) >= 1
    /\ Content = Framed(sc.segs, ScEnc)
    /\ PayloadClean(1)
    /\ ret = Len(sc.segs[1]) + 1

\* C8: for k segments, each a payload without a keyword match followed by
\* insert_keyword(K, L), the loop d = find_keyword(K, L); read_block(d - 1);
\* delete(L) returns the j-th payload in iteration j, every step succeeds,
\* and after k iterations the buffer is empty with head = tail.
C8_ExtractsEveryPayload ==
    (/\ KFits(sc.keyword, sc.keyword_lenght)
     /\ \A s \in 1 .. Len(sc.segs) : PayloadClean(s))
    => /\ pc # "kw_hung"
       /\ pc = "kw_read" => ret # RING_BUFFER_ERROR
       /\ pc = "kw_delete" => ret = RING_BUFFER_SUCCESS /\ out = sc.segs[sc.j + 1]
       /\ op = "delete" => ret = RING_BUFFER_SUCCESS
       /\ pc = "kw_done" => lenght = 0 /\ head = tail

\* C9: a successful insert_keyword(value, L) appends exactly the L low bytes
\* of value, most significant first: byte j is (value >> 8*(L-1-j)) mod 256.
C9_InsertWritesLowBytes ==
    (op = "insert_keyword" /\ ret = RING_BUFFER_SUCCESS)
    => Content = Framed(sc.segs, ScEnc)

\* C10: for K < 256^L, after insert_keyword(K, L) on a buffer whose earlier
\* bytes contain no match, find_keyword(K, L) succeeds and reports the
\* bytes insert_keyword wrote, i.e. the match that begins after the payload.
C10_InsertThenFind ==
    (/\ pc = "kw_read"
     /\ sc.j = 0
     /\ Len(sc.segs) = 1
     /\ KFits(sc.keyword, sc.keyword_lenght)
     /\ PayloadClean(1))
    => (ret # RING_BUFFER_ERROR /\ ret - 1 = Len(sc.segs[1]))

\* C11: in every reachable state, for every keyword length L in 1..4 with
\* length < L and every keyword, find_keyword returns the failure result:
\* no match is reported on a buffer holding fewer than L bytes, stale bytes
\* in the array included.
C11_ShortBufferFails ==
    (Initialised /\ op = "find_keyword" /\ lenght < arg) => ret = RING_BUFFER_ERROR

\* C12: every call that reports failure (init with capacity < 2, write_byte,
\* write_block, insert_keyword, read_block, delete, find_keyword) leaves
\* head, tail, length, capacity and the bound array with its contents of an
\* initialised buffer exactly as they were before the call.
C12_FailureLeavesState ==
    [][(/\ Initialised
        /\ op' \in {"init", "write_byte", "write_block", "insert_keyword",
                    "read_block", "delete", "find_keyword"}
        /\ ret' = RING_BUFFER_ERROR)
       => UNCHANGED rbvars]_vars

\* C13: read_block(out, len) and delete(len) fail whenever len > length and
\* succeed, removing exactly the first len bytes, whenever len <= length,
\* for every requested len from 0 up to and beyond the capacity, lengths
\* beyond the 8-bit width of delete's parameter included.
C13_RemoveChecksLength ==
    [][(Initialised /\ op' \in {"read_block", "delete"})
       => IF arg' > lenght
          THEN ret' = RING_BUFFER_ERROR
          ELSE /\ ret' = RING_BUFFER_SUCCESS
               /\ lenght' = lenght - arg'
               /\ queue' = Drop(queue, arg')]_vars

\* the start offsets i in 0 .. lenght - keyword_lenght at which the bytes at
\* logical offsets i .. i + keyword_lenght - 1 from head, indices taken
\* modulo the capacity, are the keyword's bytes most significant first
RefHits(keyword, keyword_lenght) ==
    {i \in 0 .. lenght - keyword_lenght :
        \A k \in 1 .. keyword_lenght :
            array[(head + i + k - 1) % max_length] = EncLow(keyword, keyword_lenght)[k]}

\* C14: for L in 1..4, K < 256^L and length >= L, find_keyword(K, L)
\* succeeds if and only if the reference search over the logical content
\* finds an occurrence, and then reports the occurrence nearest to head (the
\* smallest start offset, as distance - 1), whatever the head position.
C14_NearestOccurrence ==
    Initialised =>
        \A keyword \in FreeKeywords : \A keyword_lenght \in 1 .. KEYWORD_BYTES :
            (KFits(keyword, keyword_lenght) /\ lenght >= keyword_lenght) =>
                \A d \in Ring_Buffer_Find_Keyword(RB, keyword, keyword_lenght) :
                    IF RefHits(keyword, keyword_lenght) = {}
                    THEN d = RING_BUFFER_ERROR
                    ELSE \E i \in RefHits(keyword, keyword_lenght) :
                            /\ d = i + 1
                            /\ \A j \in RefHits(keyword, keyword_lenght) : i <= j

\* C15: write_block(data, len) fails exactly when length + len > capacity;
\* otherwise it succeeds, stores data[i] at (tail + i) mod capacity for i in
\* 0 .. len-1, sets length to length + len and tail to (tail + len) mod
\* capacity, and leaves head (and every other array position) unchanged.
C15_WriteBlockContract ==
    pc = "write_done" =>
        LET b == sc.before
            n == Len(sc.input)
            written == {(b.tail + i) % b.max_length : i \in 0 .. n - 1}
        IN IF b.lenght + n > b.max_length
           THEN ret = RING_BUFFER_ERROR
           ELSE /\ ret = RING_BUFFER_SUCCESS
                /\ \A i \in 0 .. n - 1 : array[(b.tail + i) % b.max_length] = sc.input[i + 1]
                /\ \A i \in DOMAIN array : i \notin written => array[i] = b.array[i]
                /\ lenght = b.lenght + n
                /\ tail = (b.tail + n) % b.max_length
                /\ head = b.head
                /\ max_length = b.max_length

\* C15 witness: a block of differing bytes has been written behind stored
\* bytes, split across the end of the array, with head not at index 0.
C15_SplitBlockWritten ==
    /\ pc = "write_done"
    /\ ret = RING_BUFFER_SUCCESS
    /\ sc.before.lenght >= 1
    /\ sc.before.head >= 1
    /\ sc.before.tail + Len(sc.input) > max_length
    /\ \E i, j \in 1 .. Len(sc.input) : sc.input[i] # sc.input[j]

\* C16: in every reachable state len() returns the stored byte count and
\* free_space() returns capacity - length as a value in 0 .. capacity (the
\* subtraction does not wrap below zero), so len() + free_space() = capacity.
C16_LengthPlusFreeIsCapacity ==
    Initialised =>
        /\ op = "len" => ret = lenght
        /\ op = "free_space" => (ret \in 0 .. max_length /\ lenght + ret = max_length)

\* C17: read_byte on an empty buffer returns a result the caller can tell
\* from a stored data byte and leaves head, tail, length and the array
\* unchanged; on a non-empty buffer it returns the byte at head, decrements
\* length and sets head to (head + 1) mod capacity.
C17_ReadByteContract ==
    [][(Initialised /\ op' = "read_byte")
       => IF lenght = 0
          THEN ret' \notin Bytes /\ UNCHANGED rbvars
          ELSE /\ head \in DOMAIN array
               /\ ret' = array[head]
               /\ lenght' = lenght - 1
               /\ head' = (head + 1) % max_length
               /\ UNCHANGED <<tail, array, max_length>>]_vars

\* C18: init(storage, capacity) succeeds if and only if capacity >= 2, and
\* after a successful init head = 0, tail = 0, length = 0 and the buffer is
\* bound to the given storage and capacity, whatever the handle held before.
C18_InitContract ==
    pc = "init_done" =>
        /\ ret = RING_BUFFER_SUCCESS <=> sc.buffer_size >= 2
        /\ ret \in {RING_BUFFER_SUCCESS, RING_BUFFER_ERROR}
        /\ ret = RING_BUFFER_SUCCESS =>
              /\ head = 0
              /\ tail = 0
              /\ lenght = 0
              /\ max_length = sc.buffer_size
              /\ array = FreshBuffer(sc.buffer_size)

\* C18 witness: a buffer that held bytes, with head and tail off index 0,
\* has been re-initialised with another array of another capacity.
C18_UsedBufferReinitialised ==
    /\ pc = "init_done"
    /\ ret = RING_BUFFER_SUCCESS
    /\ sc.before.lenght >= 1
    /\ sc.before.head >= 1
    /\ sc.before.tail >= 1
    /\ sc.before.max_length # max_length
    /\ lenght = 0

\* C19: when every call executes atomically (the calls are serialized), no
\* state is reachable in which length differs from the number of bytes
\* written minus the number removed, or disagrees with head and tail; a
\* producer's write_byte running between the load and the store of length
\* inside the consumer's read_byte or delete (or the other way round) does
\* reach such a state (the witness).
C19_SerializedCallsKeepCount ==
    (pc = Idle /\ sc.serialized) =>
        /\ lenght = Len(queue)
        /\ (head + lenght) % max_length = tail

\* C19 witness: without serialization both sides are idle, every call has
\* returned, and length is neither the number of bytes written and not
\* removed nor the distance from head to tail.
C19_LostUpdate ==
    /\ pc = Idle
    /\ ~sc.serialized
    /\ lenght # Len(queue)
    /\ (head + lenght) % max_length # tail

\* C20: with serialized calls, one producer calling write_byte and one
\* consumer calling read_byte whenever length > 0, under weak fairness of
\* the consumer: the bytes returned are always a prefix of the bytes
\* accepted (each once, in the order written), every accepted byte is
\* eventually returned, and a producer that retries after a buffer-full
\* failure eventually succeeds.
C20_EveryByteDelivered ==
    /\ [](/\ Len(sc.recv) <= Len(sc.sent)
          /\ \A i \in 1 .. Len(sc.recv) : sc.recv[i] = sc.sent[i])
    /\ \A k \in 1 .. MaxSent : (Len(sc.sent) >= k) ~> (Len(sc.recv) >= k)
    /\ sc.pending ~> ~sc.pending

\* C20 witness: a write was rejected by a full buffer, the retry has
\* succeeded, and all MaxSent bytes, not all equal, have been returned.
C20_AllDeliveredAfterRetry ==
    /\ pc = "running"
    /\ sc.failed
    /\ ~sc.pending
    /\ Len(sc.sent) = MaxSent
    /\ sc.recv = sc.sent
    /\ \E i, j \in 1 .. MaxSent : sc.sent[i] # sc.sent[j]

\* C21: find_keyword, len() and free_space() are pure queries: whatever the
\* state and the arguments, match or no match, they leave head, tail,
\* length, capacity and every array byte unchanged, so a read that follows
\* a query returns what it would have returned without the query.
C21_QueriesChangeNothing ==
    /\ pc = "query_done" => RB = sc.before
    /\ pc = "read_done" =>
          Outcome(RB, ret, out) \in Ring_Buffer_Read_String(sc.before, arg)

\* C21 witness: find_keyword has found a match behind other stored bytes in
\* a buffer whose content wraps, and the read that followed returned bytes.
C21_ReadAfterSuccessfulFind ==
    /\ pc = "read_done"
    /\ sc.result >= 2
    /\ sc.before.lenght = Len(queue) + arg
    /\ sc.before.head > sc.before.tail
    /\ ret = RING_BUFFER_SUCCESS
    /\ Len(out) >= 2
    /\ \E i, j \in 1 .. Len(out) : out[i] # out[j]

\* C22: find_keyword's return value tells success from failure: it is 0
\* (RING_BUFFER_ERROR) when the search fails, and every successful search
\* returns a distance d with 1 <= d <= length - keyword_len + 1, never the
\* failure value.
C22_DistanceInRange ==
    (Initialised /\ op = "find_keyword") =>
        \/ ret = RING_BUFFER_ERROR
        \/ (1 <= ret /\ ret <= lenght - arg + 1)
====
